---- MODULE Spec2Model ----
(***************************************************************************)
(* Citation Analyzer (src/app.py): the citation-aggregation core.          *)
(*                                                                         *)
(*   SpecAgg    the two aggregators, oa_process_data and s2_process_data,  *)
(*              applied to bounded inputs;                                 *)
(*   SpecFetch  the cursor-paginated fetch loops (oa_get_author_works,     *)
(*              the per-chunk loop of main, oa_get_citing_works) against   *)
(*              a scripted server; FairSpecFetch adds the fairness of a    *)
(*              sequential program that keeps running;                     *)
(*   SpecCall   one adapter call and its HTTP attempts (429, retry);       *)
(*   SpecNormalize  the identifier normalization, applied twice;           *)
(*   SpecMain   one run of main: searches, gate, the two pipelines.        *)
(*                                                                         *)
(* Identifiers are Python strings and are modelled as TLA+ strings, so     *)
(* startswith and replace are computed on characters.                      *)
(***************************************************************************)
EXTENDS Integers, Sequences, FiniteSets, TLC

VARIABLES
    \* ---- aggregator (SpecAgg)
    source,             \* "OA" | "S2": which aggregator the inputs are for
    works,              \* oa_process_data: works (the citing works)
    papers,             \* s2_process_data: papers (with nested citations)
    target_author_id,   \* the raw target author id, as passed in
    collaborator_ids,   \* oa_process_data: collaborator_ids
    exclude_self,       \* the exclude_self flag
    sort_ties,          \* how the build's sort orders rows of equal Citations
    df,                 \* the returned DataFrame, a sequence of rows
    \* ---- paginated fetch (SpecFetch)
    fn,                 \* which loop runs
    server,             \* the scripted server
    work_ids,           \* the work ids whose citing works are fetched
    chunk_no,           \* position of the for loop over chunked_ids (1-based)
    cursor,             \* params["cursor"]
    collected,          \* all_works / oa_citing_works / collected_works
    response,           \* the response in flight, or the last one handled
    queried,            \* the chunks a request was sent for
    \* ---- one adapter call and its HTTP attempts (SpecCall)
    call,               \* which adapter function is called
    query,              \* the search query (searches only)
    statuses,           \* the status the server gives the 1st, 2nd attempt
    attempts,           \* requests.get calls made so far
    slept,              \* the time.sleep calls made so far, in seconds
    status_code,        \* response.status_code of the latest response
    result,             \* what the call returns: "data" | "empty"
    errors,             \* the messages surfaced with st.error
    raised,             \* an exception left the call
    \* ---- identifier normalization (SpecNormalize)
    raw_id,             \* the identifier as received
    once,               \* raw_id normalized
    twice,              \* the normalized identifier normalized again
    \* ---- one run of main (SpecMain); exclude_self and sort_ties as above
    search_query,       \* the text input
    run_button,         \* the user presses "Run Comparative Analysis" if shown
    fetch_limit,        \* the "Analyze Top N Papers" slider
    oa_candidates,      \* what oa_search_authors returns
    s2_candidates,      \* what s2_search_authors returns
    oa_works_full,      \* what oa_get_author_works returns
    oa_citing_fetched,  \* what the citing-works queries bring in all
    s2_papers_raw,      \* what s2_get_data returns
    oa_target,          \* the selected OpenAlex candidate, or None
    s2_target,          \* the selected Semantic Scholar candidate, or None
    shown,              \* the display_results calls made, in order
    messages,           \* the st.warning / st.error messages of main
    \* ---- all
    pc

aggVars   == <<source, works, papers, target_author_id, collaborator_ids,
               exclude_self, sort_ties, df>>
fetchVars == <<fn, server, work_ids, chunk_no, cursor, collected, response,
               queried>>
callVars  == <<call, query, statuses, attempts, slept, status_code, result,
               errors, raised>>
normVars  == <<raw_id, once, twice>>
mainVars  == <<search_query, run_button, fetch_limit, oa_candidates,
               s2_candidates, oa_works_full, oa_citing_fetched, s2_papers_raw,
               oa_target, s2_target, shown, messages>>
restVars  == <<callVars, normVars, mainVars>>
vars      == <<aggVars, fetchVars, restVars, pc>>

\* no adapter call is being followed
IdleCall ==
    /\ call = "none"
    /\ query = ""
    /\ statuses = <<>>
    /\ attempts = 0
    /\ slept = <<>>
    /\ status_code = 0
    /\ result = "none"
    /\ errors = <<>>
    /\ raised = FALSE

\* no identifier is being normalized
IdleNorm ==
    /\ raw_id = ""
    /\ once = ""
    /\ twice = ""

\* a candidate of an author search; None is the candidate without id
Candidate(id, display) == [id |-> id, display |-> display]

None == Candidate("", "")

\* main is not running
IdleMain ==
    /\ search_query = ""
    /\ run_button = FALSE
    /\ fetch_limit = 0
    /\ oa_candidates = <<>>
    /\ s2_candidates = <<>>
    /\ oa_works_full = <<>>
    /\ oa_citing_fetched = <<>>
    /\ s2_papers_raw = <<>>
    /\ oa_target = None
    /\ s2_target = None
    /\ shown = <<>>
    /\ messages = <<>>

IdleRest == IdleCall /\ IdleNorm /\ IdleMain

(***************************************************************************)
(* Python helpers                                                          *)
(***************************************************************************)
Min(a, b) == IF a <= b THEN a ELSE b

Max(a, b) == IF a >= b THEN a ELSE b

OA_PREFIX == "https://openalex.org/"

S2_PROFILE == "https://www.semanticscholar.org/author/"

\* str.startswith
startswith(s, p) == Len(s) >= Len(p) /\ SubSeq(s, 1, Len(p)) = p

\* s.replace(old, ""): every non-overlapping occurrence, left to right
replace(s, old) ==
    LET rest[t \in STRING] ==
            IF Len(t) < Len(old) THEN t
            ELSE IF SubSeq(t, 1, Len(old)) = old
                 THEN rest[SubSeq(t, Len(old) + 1, Len(t))]
                 ELSE SubSeq(t, 1, 1) \o rest[SubSeq(t, 2, Len(t))]
    IN  rest[s]

\* a_id.replace(PREFIX, "") if a_id.startswith(PREFIX) else a_id
clean_id(a_id) ==
    IF startswith(a_id, OA_PREFIX) THEN replace(a_id, OA_PREFIX) ELSE a_id

\* the concatenation of a sequence of sequences (halved, to keep the
\* evaluation shallow)
RECURSIVE Flatten(_)
Flatten(ss) ==
    IF ss = <<>> THEN <<>>
    ELSE IF Len(ss) = 1 THEN ss[1]
    ELSE LET h == Len(ss) \div 2
         IN  Flatten(SubSeq(ss, 1, h)) \o Flatten(SubSeq(ss, h + 1, Len(ss)))

Reverse(s) == [i \in 1..Len(s) |-> s[Len(s) + 1 - i]]

(***************************************************************************)
(* The aggregators.  A dict is a sequence of its values in insertion       *)
(* order; a missing or empty id is "" (both are falsy in `if not a_id`).   *)
(***************************************************************************)
HEAD_ROWS == 50

\* mutant: a repeated author is not counted again
count_author_once(author_counts, key, a_name) ==
    IF \E i \in 1..Len(author_counts) : author_counts[i].id = key
    THEN author_counts
    ELSE Append(author_counts, [name |-> a_name, count |-> 1, id |-> key])

\* mutant: the name is overwritten each time the author is seen
count_author_last_name(author_counts, key, a_name) ==
    IF \E i \in 1..Len(author_counts) : author_counts[i].id = key
    THEN [i \in 1..Len(author_counts) |->
             IF author_counts[i].id = key
             THEN [author_counts[i] EXCEPT !.count = @ + 1, !.name = a_name]
             ELSE author_counts[i]]
    ELSE Append(author_counts, [name |-> a_name, count |-> 1, id |-> key])

\* if key in d: d[key]["count"] += 1   else: d[key] = {name, count: 1, id}
count_author(author_counts, key, a_name) ==
    IF \E i \in 1..Len(author_counts) : author_counts[i].id = key
    THEN [i \in 1..Len(author_counts) |->
             IF author_counts[i].id = key
             THEN [author_counts[i] EXCEPT !.count = @ + 1]
             ELSE author_counts[i]]
    ELSE Append(author_counts, [name |-> a_name, count |-> 1, id |-> key])

\* mutant: the exclude_self check is left out
oa_count_step_keeps_self(author_counts, authorship, target, xs) ==
    IF authorship.id = "" THEN author_counts
    ELSE count_author(author_counts, clean_id(authorship.id), authorship.name)

\* the body of `for authorship in authorships` of oa_process_data
oa_count_step(author_counts, authorship, target, xs) ==
    IF authorship.id = "" THEN author_counts
    ELSE LET cid == clean_id(authorship.id)
         IN  IF xs /\ cid = target THEN author_counts
             ELSE count_author(author_counts, cid, authorship.name)

\* the loop over the authorships in order: the first half, then the second
RECURSIVE oa_count_loop(_, _, _, _)
oa_count_loop(author_counts, authorships, target, xs) ==
    IF authorships = <<>> THEN author_counts
    ELSE IF Len(authorships) = 1
         THEN oa_count_step(author_counts, authorships[1], target, xs)
    ELSE LET h    == Len(authorships) \div 2
             half == oa_count_loop(author_counts, SubSeq(authorships, 1, h),
                                   target, xs)
         IN  IF Len(half) >= 0      \* the first half is evaluated first
             THEN oa_count_loop(half, SubSeq(authorships, h + 1, Len(authorships)),
                                target, xs)
             ELSE half

\* `for work in works: for authorship in work["authorships"]`
oa_author_counts(ws, target, xs) ==
    oa_count_loop(<<>>, Flatten([i \in 1..Len(ws) |-> ws[i].authorships]),
                  target, xs)

\* the rows of `data`: "Collaborator?" is Yes / No, then Self for the target
data_rows(author_counts, collabs, target) ==
    [i \in 1..Len(author_counts) |->
        [name      |-> author_counts[i].name,
         citations |-> author_counts[i].count,
         collab    |-> IF author_counts[i].id = target THEN "Self"
                       ELSE IF author_counts[i].id \in collabs THEN "Yes"
                       ELSE "No",
         id        |-> author_counts[i].id]]

MaxCitations(rows) ==
    IF rows = <<>> THEN 0
    ELSE CHOOSE m \in {rows[i].citations : i \in 1..Len(rows)} :
            \A i \in 1..Len(rows) : rows[i].citations <= m

\* rows of one Citations value, in the order the sort leaves them: pandas'
\* default kind is quicksort, which is not stable, so equal rows come out in
\* an order the build decides; `ties` is that decision
tied_rows(rows, c, ties) ==
    LET same == SelectSeq(rows, LAMBDA r : r.citations = c)
    IN  IF ties = "kept" THEN same ELSE Reverse(same)

RECURSIVE sort_from(_, _, _)
sort_from(rows, c, ties) ==
    IF c < 1 THEN <<>>
    ELSE tied_rows(rows, c, ties) \o sort_from(rows, c - 1, ties)

\* mutant: the rows are left in insertion order
sort_values_skipped(rows, ties) == rows

\* df.sort_values(by="Citations", ascending=False)
sort_values(rows, ties) == sort_from(rows, MaxCitations(rows), ties)

\* df.head(n)
head(rows, n) == SubSeq(rows, 1, Min(n, Len(rows)))

\* mutant: the comparison with the target is left out
get_category_no_self(row, target) ==
    IF row.collab = "Yes" THEN "Co-author" ELSE "Other"

\* get_category(row)
get_category(row, target) ==
    IF row.id = target THEN "Self-Citation"
    ELSE IF row.collab = "Yes" THEN "Co-author"
    ELSE "Other"

\* the two df[...] = df.apply(...) columns
with_category(rows, target, profile) ==
    [i \in 1..Len(rows) |->
        [name      |-> rows[i].name,
         citations |-> rows[i].citations,
         collab    |-> rows[i].collab,
         id        |-> rows[i].id,
         category  |-> get_category(rows[i], target),
         url       |-> IF rows[i].id = "" THEN "" ELSE profile \o rows[i].id]]

\* `if not df.empty: sort, head, Category, Profile URL`
finish_df(rows, target, profile, ties) ==
    IF rows = <<>> THEN <<>>
    ELSE with_category(head(sort_values(rows, ties), HEAD_ROWS), target, profile)

\* mutant: the target id is compared as passed in, prefix and all
oa_process_data_raw_target(ws, target_raw, collabs, xs, ties) ==
    finish_df(data_rows(oa_author_counts(ws, target_raw, xs), collabs, target_raw),
              target_raw, OA_PREFIX, ties)

oa_process_data(ws, target_raw, collabs, xs, ties) ==
    LET target == clean_id(target_raw)
    IN  finish_df(data_rows(oa_author_counts(ws, target, xs), collabs, target),
                  target, OA_PREFIX, ties)

\* str(a_id): Semantic Scholar's authorId is a JSON string, and str of a str
\* is that str; a missing authorId is ""
str(a_id) == a_id

\* the body of `for author in citation["authors"]` of s2_process_data
s2_count_step(citing_authors, author, target, xs) ==
    IF author.id = "" THEN citing_authors
    ELSE LET a_id == str(author.id)
         IN  IF xs /\ a_id = target THEN citing_authors
             ELSE count_author(citing_authors, a_id, author.name)

\* the loop over the citing authors in order: the first half, then the second
RECURSIVE s2_count_loop(_, _, _, _)
s2_count_loop(citing_authors, authors, target, xs) ==
    IF authors = <<>> THEN citing_authors
    ELSE IF Len(authors) = 1
         THEN s2_count_step(citing_authors, authors[1], target, xs)
    ELSE LET h    == Len(authors) \div 2
             half == s2_count_loop(citing_authors, SubSeq(authors, 1, h),
                                   target, xs)
         IN  IF Len(half) >= 0      \* the first half is evaluated first
             THEN s2_count_loop(half, SubSeq(authors, h + 1, Len(authors)),
                                target, xs)
             ELSE half

\* `for paper in papers: for citation in paper["citations"]: for author in ...`
s2_citing_authors(ps, target, xs) ==
    s2_count_loop(<<>>,
        Flatten([i \in 1..Len(ps) |->
            Flatten([j \in 1..Len(ps[i].citations) |->
                        ps[i].citations[j].authors])]),
        target, xs)

\* `for paper in papers: for author in paper["authors"]: collaborators.add`
s2_collaborators(ps, target) ==
    LET authors == Flatten([k \in 1..Len(ps) |-> ps[k].authors])
    IN  {str(authors[i].id) :
            i \in {k \in 1..Len(authors) :
                      authors[k].id # "" /\ str(authors[k].id) # target}}

\* the DataFrame of the pair (df, len(papers)) that is returned
s2_process_data(ps, target_raw, xs, ties) ==
    LET target == str(target_raw)
    IN  finish_df(data_rows(s2_citing_authors(ps, target, xs),
                            s2_collaborators(ps, target), target),
                  target, S2_PROFILE, ties)

(***************************************************************************)
(* Inputs of the aggregators.  A citing-work list is a few works over the  *)
(* target (in URL and in bare form), two other tracked authors and an      *)
(* authorship without id, around a run of works by one new author each,    *)
(* long enough to pass HEAD_ROWS distinct authors.  The same work may be   *)
(* listed twice: main extends oa_citing_works with every chunk query's     *)
(* results and two queries can return the same citing work.                *)
(***************************************************************************)
MaxCiting == 2      \* tracked citing works in a list

MaxOver == 1        \* single-author works beyond HEAD_ROWS

SeqsUpTo(S, n) == UNION {[1..k -> S] : k \in 0..n}

FillerCounts == {0} \cup ((HEAD_ROWS - 1)..(HEAD_ROWS + MaxOver))

OATarget == "A1"

OAWork(w, as) == [id |-> OA_PREFIX \o w, authorships |-> as]

OAAuthor(a, n) == [id |-> a, name |-> n]

OACitingPool ==
    { OAWork("W1", << OAAuthor(OA_PREFIX \o "A2", "Alice") >>),
      OAWork("W2", << OAAuthor("A3", "Bob"),
                      OAAuthor(OA_PREFIX \o "A1", "Target") >>),
      OAWork("W3", << OAAuthor("A1", "T. Target"), OAAuthor("", "Anon") >>),
      OAWork("W4", << OAAuthor("A2", "A. Alice"),
                      OAAuthor(OA_PREFIX \o "A2", "Alice") >>) }

OAFiller(i) ==
    OAWork("W" \o ToString(1000 + i),
           << OAAuthor(OA_PREFIX \o "A" \o ToString(1000 + i),
                       "Filler " \o ToString(i)) >>)

OATargetForms == {OA_PREFIX \o OATarget, OATarget}

OACollaboratorSets == {{}, {"A2"}, {"A1", "A2"}}

S2Target == "101"

S2Author(a, n) == [id |-> a, name |-> n]

S2Citation(as) == [authors |-> as]

S2CitingPool ==
    { S2Citation(<< S2Author("102", "Alice") >>),
      S2Citation(<< S2Author("103", "Bob"), S2Author("101", "Target") >>),
      S2Citation(<< S2Author("101", "T. Target"), S2Author("", "Anon") >>),
      S2Citation(<< S2Author("102", "A. Alice"), S2Author("102", "Alice") >>) }

S2Filler(i) ==
    S2Citation(<< S2Author(ToString(1000 + i), "Filler " \o ToString(i)) >>)

\* the authors of the target's own two papers
S2PaperAuthors ==
    { << <<S2Author("101", "Target")>>, <<S2Author("101", "Target")>> >>,
      << <<S2Author("101", "Target"), S2Author("102", "Alice")>>,
         <<S2Author("101", "Target")>> >>,
      << <<S2Author("102", "Alice"), S2Author("", "Anon")>>,
         <<S2Author("103", "Bob"), S2Author("101", "Target")>> >> }

\* at most one tracked work, the fillers, then the other tracked works
CitingLists(pool, filler(_)) ==
    { pre \o [i \in 1..n |-> filler(i)] \o post :
        <<pre, n, post>> \in
            { t \in SeqsUpTo(pool, 1) \X FillerCounts \X SeqsUpTo(pool, MaxCiting) :
                Len(t[1]) + Len(t[3]) <= MaxCiting } }

NoRows == <<>>

InitAggOA ==
    /\ source = "OA"
    /\ works \in CitingLists(OACitingPool, OAFiller)
    /\ papers = <<>>
    /\ target_author_id \in OATargetForms
    /\ collaborator_ids \in OACollaboratorSets

InitAggS2 ==
    /\ source = "S2"
    /\ works = <<>>
    /\ \E cs \in CitingLists(S2CitingPool, S2Filler), as \in S2PaperAuthors :
          papers = << [authors |-> as[1],
                       citations |-> SubSeq(cs, 1, Max(Len(cs) - 1, 0))],
                      [authors |-> as[2],
                       citations |-> SubSeq(cs, Max(Len(cs), 1), Len(cs))] >>
    /\ target_author_id = S2Target
    /\ collaborator_ids = {}

NoResponse == [status |-> 0, results |-> <<>>, next_cursor |-> ""]

NoServer == [size |-> 0, pages |-> 0, ending |-> "none", fail_page |-> 0]

IdleFetch ==
    /\ fn = "none"
    /\ server = NoServer
    /\ work_ids = <<>>
    /\ chunk_no = 0
    /\ cursor = ""
    /\ collected = <<>>
    /\ response = NoResponse
    /\ queried = {}

InitAgg ==
    /\ InitAggOA \/ InitAggS2
    /\ exclude_self \in BOOLEAN
    /\ sort_ties \in {"kept", "reversed"}
    /\ df = NoRows
    /\ pc = "ready"
    /\ IdleFetch
    /\ IdleRest

\* df_oa = oa_process_data(oa_citing_works, oa_target["id"], oa_collaborators,
\*                         exclude_self)
OAProcessData ==
    /\ pc = "ready"
    /\ source = "OA"
    /\ df' = oa_process_data(works, target_author_id, collaborator_ids,
                             exclude_self, sort_ties)
    /\ pc' = "done"
    /\ UNCHANGED <<source, works, papers, target_author_id, collaborator_ids,
                   exclude_self, sort_ties, fetchVars, restVars>>

\* df_s2, num_papers = s2_process_data(s2_papers, s2_target["id"], exclude_self)
S2ProcessData ==
    /\ pc = "ready"
    /\ source = "S2"
    /\ df' = s2_process_data(papers, target_author_id, exclude_self, sort_ties)
    /\ pc' = "done"
    /\ UNCHANGED <<source, works, papers, target_author_id, collaborator_ids,
                   exclude_self, sort_ties, fetchVars, restVars>>

NextAgg == OAProcessData \/ S2ProcessData

SpecAgg == InitAgg /\ [][NextAgg]_vars

(***************************************************************************)
(* The paginated fetches.  One loop iteration is two steps: the request    *)
(* goes out and the server answers (pc = "request"), then the response is  *)
(* handled (pc = "handle").  A work is <<chunk, index>>: the index-th work *)
(* the server has for the query of that chunk (chunk 0: the author query). *)
(***************************************************************************)
BATCH_SIZE == 25

PER_PAGE == 200

SAFETY_CAP == 5000

MAX_WORKS == 100

HTTP_OK == 200

HTTP_ERROR == 500

MaxIds == 51        \* work ids whose citing works are fetched

MaxPages == 3       \* pages a finite server has for one query

\* main never reads oa_citing_works inside its loops; what a server that never
\* ends sends beyond every finite server's total is not recorded
MaxKept == (MaxIds \div BATCH_SIZE + 1) * (MaxPages + 1) * 2

\* mutant: a last chunk of fewer than `size` ids is dropped
chunked_ids_full_only(ids, size) ==
    [c \in 1..(Len(ids) \div size) |->
        SubSeq(ids, (c - 1) * size + 1, c * size)]

\* [ids[i:i + size] for i in range(0, len(ids), size)]
chunked_ids(ids, size) ==
    [c \in 1..((Len(ids) + size - 1) \div size) |->
        SubSeq(ids, (c - 1) * size + 1, Min(c * size, Len(ids)))]

\* "|".join(ids)
join(ids) ==
    LET upto[n \in 0..Len(ids)] ==
            IF n = 0 THEN ""
            ELSE IF n = 1 THEN ids[1]
            ELSE upto[n - 1] \o "|" \o ids[n]
    IN  upto[Len(ids)]

\* f"cites:{...}" over item.replace("https://openalex.org/", "") of the chunk
\* (main strips the prefix chunk by chunk; oa_get_citing_works has stripped
\* it from every id before it makes the chunks: the filter is the same)
cites_filter(chunk) ==
    "cites:" \o join([i \in 1..Len(chunk) |-> replace(chunk[i], OA_PREFIX)])

\* f"author.id:{author_id}", the prefix stripped from author_id
author_filter(author_id) == "author.id:" \o clean_id(author_id)

\* the cursor token the server hands out for page k; "*" asks for the first
cursor_of(k) == IF k = 1 THEN "*" ELSE "c" \o ToString(k)

page_of(srv, c) ==
    CHOOSE k \in 1..(srv.pages + 1) : cursor_of(k) = c

page_results(srv, chunk, k) ==
    [j \in 1..srv.size |-> <<chunk, (k - 1) * srv.size + j>>]

\* the server's answer to a request with this cursor: an HTTP error for
\* page fail_page; a page of results with the next cursor; after the last
\* page either no cursor ("none"), a cursor to an empty page ("empty"), or
\* the last page's own cursor over and over ("repeat")
respond(srv, chunk, c) ==
    LET k == page_of(srv, c)
    IN  IF k = srv.fail_page
        THEN [status |-> HTTP_ERROR, results |-> <<>>, next_cursor |-> ""]
        ELSE IF k > srv.pages
        THEN [status |-> HTTP_OK, results |-> <<>>, next_cursor |-> ""]
        ELSE [status      |-> HTTP_OK,
              results     |-> page_results(srv, chunk, k),
              next_cursor |-> IF k < srv.pages THEN cursor_of(k + 1)
                              ELSE IF srv.ending = "empty" THEN cursor_of(k + 1)
                              ELSE IF srv.ending = "repeat" THEN cursor_of(k)
                              ELSE ""]

\* mutant: the cursor is looked at before the page is accumulated
author_works_handle_cursor_first(all_works, cur, r) ==
    IF r.status # HTTP_OK
    THEN [collected |-> <<>>, cursor |-> cur, pc |-> "done"]
    ELSE IF r.results = <<>> \/ r.next_cursor = ""
    THEN [collected |-> all_works, cursor |-> cur, pc |-> "done"]
    ELSE [collected |-> all_works \o r.results,
          cursor    |-> r.next_cursor,
          pc        |-> IF Len(all_works \o r.results) > SAFETY_CAP
                        THEN "done" ELSE "request"]

\* oa_get_author_works, the loop body after requests.get: what is
\* accumulated, the cursor, and where the function goes next
author_works_handle(all_works, cur, r) ==
    IF r.status # HTTP_OK                   \* raise_for_status: return []
    THEN [collected |-> <<>>, cursor |-> cur, pc |-> "done"]
    ELSE IF r.results = <<>>                \* if not results: break
    THEN [collected |-> all_works, cursor |-> cur, pc |-> "done"]
    ELSE IF r.next_cursor = ""              \* if not next_cursor: break
    THEN [collected |-> all_works \o r.results, cursor |-> cur, pc |-> "done"]
    ELSE [collected |-> all_works \o r.results,
          cursor    |-> r.next_cursor,
          pc        |-> IF Len(all_works \o r.results) > SAFETY_CAP
                        THEN "done" ELSE "request"]

\* oa_citing_works.extend(res), recorded up to MaxKept works
kept_extend(ws, res) ==
    IF Len(ws) + Len(res) <= MaxKept THEN ws \o res ELSE ws

\* main, the body of `while True` after requests.get
main_handle(oa_citing_works, cur, r) ==
    IF r.status # HTTP_OK                   \* except: st.warning; break
    THEN [collected |-> oa_citing_works, cursor |-> cur, pc |-> "for"]
    ELSE IF r.results = <<>>                \* if not res: break
    THEN [collected |-> oa_citing_works, cursor |-> cur, pc |-> "for"]
    ELSE IF r.next_cursor = ""              \* if not next_c: break
    THEN [collected |-> kept_extend(oa_citing_works, r.results),
          cursor |-> cur, pc |-> "for"]
    ELSE [collected |-> kept_extend(oa_citing_works, r.results),
          cursor |-> r.next_cursor, pc |-> "request"]

\* oa_get_citing_works, the body of `while len(collected_works) < max_works`
\* after requests.get
citing_works_handle(collected_works, cur, r) ==
    IF r.status # HTTP_OK                   \* except Exception: break
    THEN [collected |-> collected_works, cursor |-> cur, pc |-> "for"]
    ELSE IF r.results = <<>>
    THEN [collected |-> collected_works, cursor |-> cur, pc |-> "for"]
    ELSE IF r.next_cursor = ""
    THEN [collected |-> collected_works \o r.results, cursor |-> cur, pc |-> "for"]
    ELSE [collected |-> collected_works \o r.results,
          cursor |-> r.next_cursor, pc |-> "request"]

Fns == {"oa_get_author_works", "main", "oa_get_citing_works"}

Endings == {"none", "empty", "repeat"}

Servers(sizes, pages, fails) ==
    [size : sizes, pages : pages, ending : Endings, fail_page : fails]

\* every loop meets small pages, with and without an HTTP error;
\* oa_get_citing_works also full pages, which pass max_works; and
\* oa_get_author_works as many full pages as it takes to pass the safety cap
ServersFor(f) ==
    Servers({1, 2}, 0..MaxPages, 0..2)
    \cup (IF f = "oa_get_citing_works"
          THEN Servers({PER_PAGE}, 1..2, {0}) ELSE {})
    \cup (IF f = "oa_get_author_works"
          THEN Servers({PER_PAGE},
                       (SAFETY_CAP \div PER_PAGE - 1)..(SAFETY_CAP \div PER_PAGE + 2),
                       {0})
          ELSE {})

IdCounts ==
    {n \in 0..MaxIds : n = MaxIds \/ n % BATCH_SIZE \in {0, 1, BATCH_SIZE - 1}}

WorkIds(n) == [i \in 1..n |-> OA_PREFIX \o "W" \o ToString(i)]

IdleAgg ==
    /\ source = "none"
    /\ works = <<>>
    /\ papers = <<>>
    /\ target_author_id = OA_PREFIX \o OATarget
    /\ collaborator_ids = {}
    /\ exclude_self = FALSE
    /\ sort_ties = "kept"
    /\ df = NoRows

InitFetch ==
    /\ IdleAgg
    /\ IdleRest
    /\ fn \in Fns
    /\ server \in ServersFor(fn)
    /\ work_ids \in IF fn = "oa_get_author_works" THEN {<<>>}
                    ELSE {WorkIds(n) : n \in IdCounts}
    /\ chunk_no = 0
    /\ cursor = "*"
    /\ collected = <<>>
    /\ response = NoResponse
    /\ queried = {}
    /\ pc = IF fn = "oa_get_author_works" THEN "request" ELSE "for"

\* response = requests.get(url, headers=HEADERS, params=params)
AuthorWorksRequest ==
    /\ fn = "oa_get_author_works"
    /\ pc = "request"
    /\ response' = respond(server, 0, cursor)
    /\ queried' = queried \cup {author_filter(target_author_id)}
    /\ pc' = "handle"
    /\ UNCHANGED <<aggVars, restVars, fn, server, work_ids, chunk_no, cursor, collected>>

AuthorWorksHandle ==
    /\ fn = "oa_get_author_works"
    /\ pc = "handle"
    /\ LET next == author_works_handle(collected, cursor, response)
       IN  /\ collected' = next.collected
           /\ cursor' = next.cursor
           /\ pc' = next.pc
    /\ UNCHANGED <<aggVars, restVars, fn, server, work_ids, chunk_no, response, queried>>

\* for i, chunk in enumerate(chunked_ids): params = {..., "cursor": "*"}
MainForChunk ==
    /\ fn = "main"
    /\ pc = "for"
    /\ IF chunk_no < Len(chunked_ids(work_ids, BATCH_SIZE))
       THEN /\ chunk_no' = chunk_no + 1
            /\ cursor' = "*"
            /\ pc' = "request"
       ELSE /\ pc' = "done"
            /\ UNCHANGED <<chunk_no, cursor>>
    /\ UNCHANGED <<aggVars, restVars, fn, server, work_ids, collected, response, queried>>

\* r = requests.get(url, headers=HEADERS, params=params)
MainRequest ==
    /\ fn = "main"
    /\ pc = "request"
    /\ response' = respond(server, chunk_no, cursor)
    /\ queried' = queried \cup
                    {cites_filter(chunked_ids(work_ids, BATCH_SIZE)[chunk_no])}
    /\ pc' = "handle"
    /\ UNCHANGED <<aggVars, restVars, fn, server, work_ids, chunk_no, cursor, collected>>

MainHandle ==
    /\ fn = "main"
    /\ pc = "handle"
    /\ LET next == main_handle(collected, cursor, response)
       IN  /\ collected' = next.collected
           /\ cursor' = next.cursor
           /\ pc' = next.pc
    /\ UNCHANGED <<aggVars, restVars, fn, server, work_ids, chunk_no, response, queried>>

\* for chunk in chunked_ids: if len(collected_works) >= max_works: break
\* and, the loop over, return collected_works[:max_works]
CitingWorksForChunk ==
    /\ fn = "oa_get_citing_works"
    /\ pc = "for"
    /\ IF /\ chunk_no < Len(chunked_ids(work_ids, BATCH_SIZE))
          /\ Len(collected) < MAX_WORKS
       THEN /\ chunk_no' = chunk_no + 1
            /\ cursor' = "*"
            /\ pc' = "request"
            /\ UNCHANGED collected
       ELSE /\ pc' = "done"
            /\ collected' = head(collected, MAX_WORKS)
            /\ UNCHANGED <<chunk_no, cursor>>
    /\ UNCHANGED <<aggVars, restVars, fn, server, work_ids, response, queried>>

\* while len(collected_works) < max_works: response = requests.get(...)
CitingWorksRequest ==
    /\ fn = "oa_get_citing_works"
    /\ pc = "request"
    /\ IF Len(collected) < MAX_WORKS
       THEN /\ response' = respond(server, chunk_no, cursor)
            /\ queried' = queried \cup
                    {cites_filter(chunked_ids(work_ids, BATCH_SIZE)[chunk_no])}
            /\ pc' = "handle"
       ELSE /\ pc' = "for"
            /\ UNCHANGED <<response, queried>>
    /\ UNCHANGED <<aggVars, restVars, fn, server, work_ids, chunk_no, cursor, collected>>

CitingWorksHandle ==
    /\ fn = "oa_get_citing_works"
    /\ pc = "handle"
    /\ LET next == citing_works_handle(collected, cursor, response)
       IN  /\ collected' = next.collected
           /\ cursor' = next.cursor
           /\ pc' = next.pc
    /\ UNCHANGED <<aggVars, restVars, fn, server, work_ids, chunk_no, response, queried>>

NextFetch ==
    \/ AuthorWorksRequest
    \/ AuthorWorksHandle
    \/ MainForChunk
    \/ MainRequest
    \/ MainHandle
    \/ CitingWorksForChunk
    \/ CitingWorksRequest
    \/ CitingWorksHandle

SpecFetch == InitFetch /\ [][NextFetch]_vars

\* a sequential program keeps taking its next step
FairSpecFetch == SpecFetch /\ WF_vars(NextFetch)

(***************************************************************************)
(* What the aggregator claims speak of, stated on the inputs.              *)
(***************************************************************************)
\* the canonical form of an id: the prefix stripped once when it is there
Canon(x) ==
    IF startswith(x, OA_PREFIX) THEN SubSeq(x, Len(OA_PREFIX) + 1, Len(x)) ELSE x

\* the (citing work, authorship) pairs in processing order
Citing ==
    IF source = "OA"
    THEN Flatten([i \in 1..Len(works) |-> works[i].authorships])
    ELSE Flatten([i \in 1..Len(papers) |->
             Flatten([j \in 1..Len(papers[i].citations) |->
                         papers[i].citations[j].authors])])

\* the collaborator set the rows are categorised against
Collaborators ==
    IF source = "OA" THEN collaborator_ids
    ELSE LET authors == Flatten([k \in 1..Len(papers) |-> papers[k].authors])
         IN  {authors[i].id : i \in 1..Len(authors)} \ {""}

\* withId: the pairs whose authorship has an id; self: those of the target;
\* counted: the pairs that count (the target's do not under exclude_self);
\* authors, all: the distinct canonical ids of the counted pairs, of all pairs
Facts ==
    LET c       == Citing
        target  == Canon(target_author_id)
        ids     == [i \in 1..Len(c) |-> Canon(c[i].id)]
        withId  == {i \in 1..Len(c) : c[i].id # ""}
        self    == {i \in withId : ids[i] = target}
        counted == IF exclude_self THEN withId \ self ELSE withId
    IN  [citing  |-> c,
         target  |-> target,
         ids     |-> ids,
         withId  |-> withId,
         self    |-> self,
         counted |-> counted,
         authors |-> {ids[i] : i \in counted},
         all     |-> {ids[i] : i \in withId},
         collabs |-> Collaborators]

Occurrences(f, a) == Cardinality({i \in f.counted : f.ids[i] = a})

Rows == 1..Len(df)

SumCitations(f) ==
    Cardinality({rc \in Rows \X (1..Len(f.citing)) : rc[2] <= df[rc[1]].citations})

Categories == {"Self-Citation", "Co-author", "Other"}

\* the result of the same call with another exclude_self and tie order
ResultWith(xs, ties) ==
    IF source = "OA"
    THEN oa_process_data(works, target_author_id, collaborator_ids, xs, ties)
    ELSE s2_process_data(papers, target_author_id, xs, ties)

SameRow(a, b) ==
    /\ a.id = b.id
    /\ a.name = b.name
    /\ a.citations = b.citations
    /\ a.category = b.category

\* every row of a is a row of b
RowsWithin(a, b) ==
    \A r \in 1..Len(a) : \E o \in 1..Len(b) : SameRow(a[r], b[o])

Done == pc = "done" /\ source \in {"OA", "S2"}

(***************************************************************************)
(* C1 as stated: the Citations of the returned rows add up to the number   *)
(* of (citing work, authorship) pairs processed (those with an id), less   *)
(* the target's own authorships when exclude_self is set, for any number   *)
(* of distinct authors.                                                    *)
(***************************************************************************)
C1_SumEqualsPairs ==
    Done => LET f == Facts IN SumCitations(f) = Cardinality(f.counted)

(***************************************************************************)
(* C1 amended: the sum equals the number of counted pairs when at most     *)
(* HEAD_ROWS distinct authors are counted, and is smaller when there are   *)
(* more, because only the first HEAD_ROWS rows are returned.               *)
(***************************************************************************)
C1_SumEqualsPairsUpToHead ==
    Done =>
        LET f == Facts
        IN  IF Cardinality(f.authors) <= HEAD_ROWS
            THEN SumCitations(f) = Cardinality(f.counted)
            ELSE SumCitations(f) < Cardinality(f.counted)

C1_Witness ==
    Done /\ exclude_self /\
        LET f == Facts
        IN  /\ f.self # {}
            /\ Cardinality(f.authors) = HEAD_ROWS
            /\ Cardinality(f.counted) > HEAD_ROWS
            /\ SumCitations(f) = Cardinality(f.counted)

(***************************************************************************)
(* C2: in the OpenAlex result each author's count is the number of         *)
(* distinct citing works (by work id) that list the author, however often  *)
(* the work was returned and however often it lists the author.            *)
(***************************************************************************)
DistinctWorksWith(a) ==
    {works[k].id : k \in {k \in 1..Len(works) :
        \E j \in 1..Len(works[k].authorships) :
            /\ works[k].authorships[j].id # ""
            /\ Canon(works[k].authorships[j].id) = a}}

C2_CountIsDistinctWorks ==
    (Done /\ source = "OA") =>
        \A r \in Rows : df[r].citations = Cardinality(DistinctWorksWith(df[r].id))

(***************************************************************************)
(* C3: every row has exactly one of the three categories: Self-Citation    *)
(* iff its id is the target's canonical id, Co-author iff its id is in the *)
(* collaborator set and is not the target, Other otherwise.                *)
(***************************************************************************)
C3_CategoryTotalExclusive ==
    Done =>
        LET target  == Canon(target_author_id)
            collabs == Collaborators
        IN  \A r \in Rows :
                LET isSelf   == df[r].id = target
                    isCollab == df[r].id \in collabs
                IN  /\ df[r].category \in Categories
                    /\ (df[r].category = "Self-Citation") <=> isSelf
                    /\ (df[r].category = "Co-author") <=> (isCollab /\ ~isSelf)
                    /\ (df[r].category = "Other") <=> (~isCollab /\ ~isSelf)

C3_Witness ==
    /\ Done
    /\ Canon(target_author_id) \in Collaborators
    /\ \E r \in Rows : df[r].category = "Self-Citation"
    /\ \E r \in Rows : df[r].category = "Co-author"
    /\ \E r \in Rows : df[r].category = "Other"

(***************************************************************************)
(* C4: at most HEAD_ROWS rows, in non-increasing order of Citations, each  *)
(* row carrying its author's count, and no omitted author counted more     *)
(* often than a returned one; no citing item yields no row.                *)
(***************************************************************************)
C4_TopRowsByCount ==
    Done =>
        LET f      == Facts
            rowIds == {df[r].id : r \in Rows}
        IN  /\ Len(df) <= HEAD_ROWS
            /\ \A r \in Rows : r < Len(df) => df[r].citations >= df[r + 1].citations
            /\ \A r \in Rows : /\ df[r].id \in f.authors
                               /\ df[r].citations = Occurrences(f, df[r].id)
            /\ Cardinality(rowIds) = Len(df)
            /\ Len(df) = Min(HEAD_ROWS, Cardinality(f.authors))
            /\ \A a \in f.authors \ rowIds :
                  Occurrences(f, a) <= df[Len(df)].citations
            /\ f.citing = <<>> => df = NoRows

C4_Witness ==
    Done /\ Len(df) = HEAD_ROWS /\ df[1].citations > df[HEAD_ROWS].citations /\
        LET f == Facts
        IN  /\ Cardinality(f.authors) > HEAD_ROWS
            \* the most cited author was first seen after HEAD_ROWS others
            /\ \A i \in f.counted :
                  f.ids[i] = df[1].id
                      => Cardinality({f.ids[j] : j \in {k \in f.counted : k < i}})
                            >= HEAD_ROWS

(***************************************************************************)
(* C5: with the target id given as a URL, a citing author in bare or URL   *)
(* form is the target (Self-Citation, and skipped under exclude_self)      *)
(* exactly when the two canonical ids are equal.                           *)
(***************************************************************************)
C5_SelfCheckOnCanonicalIds ==
    (Done /\ source = "OA") =>
        LET f    == Facts
            kept == Cardinality(f.authors) <= HEAD_ROWS
        IN  \A a \in f.all :
                LET mine == {r \in Rows : df[r].id = a}
                IN  IF a = f.target
                    THEN /\ exclude_self => mine = {}
                         /\ \A r \in mine : df[r].category = "Self-Citation"
                         /\ (~exclude_self /\ kept) => mine # {}
                    ELSE /\ \A r \in mine : df[r].category # "Self-Citation"
                         /\ kept => mine # {}

C5_Witness ==
    /\ Done
    /\ source = "OA"
    /\ target_author_id = OA_PREFIX \o OATarget
    /\ ~exclude_self
    /\ LET f == Facts
       IN  /\ \E i \in f.withId : f.citing[i].id = OATarget
           /\ \E i \in f.withId : f.citing[i].id = OA_PREFIX \o OATarget
           /\ \E r \in Rows : /\ df[r].id = OATarget
                              /\ df[r].category = "Self-Citation"
                              /\ df[r].citations = Cardinality(f.self)

(***************************************************************************)
(* C6 as stated: under exclude_self the target has no row, and every other *)
(* author's row is the row the author has without exclude_self, for any    *)
(* input.                                                                  *)
(***************************************************************************)
C6_ExcludeSelfOnlyDropsTarget ==
    (Done /\ exclude_self) =>
        LET target == Canon(target_author_id)
            other  == ResultWith(FALSE, sort_ties)
            others == SelectSeq(other, LAMBDA o : o.id # target)
        IN  /\ \A r \in Rows : df[r].id # target
            /\ RowsWithin(df, other)
            /\ RowsWithin(others, df)

(***************************************************************************)
(* C6 amended: under exclude_self the target has no row; when the result   *)
(* without exclude_self is not cut (at most HEAD_ROWS distinct authors,    *)
(* the target included), every other author's row is the same in both.     *)
(***************************************************************************)
C6_ExcludeSelfOnlyDropsTargetUpToHead ==
    (Done /\ exclude_self) =>
        LET target == Canon(target_author_id)
        IN  /\ \A r \in Rows : /\ df[r].id # target
                               /\ df[r].category # "Self-Citation"
            /\ Cardinality(Facts.all) <= HEAD_ROWS =>
                  \A ties \in {"kept", "reversed"} :
                      LET other  == ResultWith(FALSE, ties)
                          others == SelectSeq(other, LAMBDA o : o.id # target)
                      IN  RowsWithin(df, other) /\ RowsWithin(others, df)

C6_Witness ==
    Done /\ exclude_self /\ Len(df) >= 2 /\
        LET f     == Facts
            other == ResultWith(FALSE, sort_ties)
        IN  /\ f.self # {}
            /\ Cardinality(f.all) <= HEAD_ROWS
            /\ \E o \in 1..Len(other) : other[o].category = "Self-Citation"

(***************************************************************************)
(* What the fetch claims speak of.                                         *)
(***************************************************************************)
Chunks == chunked_ids(work_ids, BATCH_SIZE)

AllFilters == {cites_filter(Chunks[c]) : c \in 1..Len(Chunks)}

\* every work the server has for one query, page after page
QueryWorks(chunk) ==
    Flatten([k \in 1..server.pages |-> page_results(server, chunk, k)])

\* what a complete fetch returns
AllWorks ==
    IF fn = "oa_get_author_works" THEN QueryWorks(0)
    ELSE Flatten([c \in 1..Len(Chunks) |-> QueryWorks(c)])

\* a finite sequence of pages, no error, fewer works than the safety cap
FiniteServer ==
    /\ server.ending # "repeat"
    /\ server.fail_page = 0
    /\ server.size * server.pages < SAFETY_CAP

(***************************************************************************)
(* C7: every cursor-paginated fetch loop ends, whatever the server sends,  *)
(* a next-cursor that never changes included.                              *)
(***************************************************************************)
C7_EveryFetchEnds == <>(pc = "done")

(***************************************************************************)
(* C8: oa_get_author_works sends no further request once the page just     *)
(* received was empty, or carried no next-cursor, or SAFETY_CAP works have *)
(* been accumulated.                                                       *)
(***************************************************************************)
C8_NoRequestOnceStopHolds ==
    (fn = "oa_get_author_works" /\ pc = "request" /\ response # NoResponse) =>
        /\ response.results # <<>>
        /\ response.next_cursor # ""
        /\ Len(collected) < SAFETY_CAP

(***************************************************************************)
(* C9: against a finite, error-free server with fewer works than the       *)
(* safety cap, oa_get_author_works and the chunk loops of main end and     *)
(* return every work of every page once, in page order.                    *)
(***************************************************************************)
C9_FinitePagesAllReturned ==
    (fn \in {"oa_get_author_works", "main"} /\ FiniteServer)
        => <>(pc = "done" /\ collected = AllWorks)

C9_Witness ==
    /\ pc = "done"
    /\ fn = "oa_get_author_works"
    /\ FiniteServer
    /\ server.ending = "empty"
    /\ server.pages >= 2
    /\ response.status = HTTP_OK
    /\ response.results = <<>>
    /\ collected = AllWorks

(***************************************************************************)
(* The partition of C10: ceil(N / BATCH_SIZE) chunks, none empty, none     *)
(* longer than BATCH_SIZE, which concatenate to the list of ids.           *)
(***************************************************************************)
ChunksPartition ==
    LET ch == Chunks
    IN  /\ Len(ch) * BATCH_SIZE >= Len(work_ids)
        /\ (Len(ch) - 1) * BATCH_SIZE < Len(work_ids) \/ Len(ch) = 0
        /\ \A c \in 1..Len(ch) : Len(ch[c]) \in 1..BATCH_SIZE
        /\ Flatten(ch) = work_ids

(***************************************************************************)
(* C10 as stated: the ids are partitioned into chunks and every chunk is   *)
(* queried, in main and in oa_get_citing_works.                            *)
(***************************************************************************)
C10_EveryChunkQueried ==
    (pc = "done" /\ fn \in {"main", "oa_get_citing_works"}) =>
        /\ ChunksPartition
        /\ queried = AllFilters

(***************************************************************************)
(* C10 amended: the partition holds; main queries every chunk;             *)
(* oa_get_citing_works queries the chunks in order until MAX_WORKS works   *)
(* are collected and skips the chunks that remain.                         *)
(***************************************************************************)
C10_ChunksQueriedUntilMaxWorks ==
    (pc = "done" /\ fn \in {"main", "oa_get_citing_works"}) =>
        /\ ChunksPartition
        /\ fn = "main" => queried = AllFilters
        /\ fn = "oa_get_citing_works" =>
              \E m \in 0..Len(Chunks) :
                  /\ queried = {cites_filter(Chunks[c]) : c \in 1..m}
                  /\ m < Len(Chunks) => Len(collected) = MAX_WORKS

C10_Witness ==
    /\ pc = "done"
    /\ fn = "oa_get_citing_works"
    /\ Len(work_ids) = 2 * BATCH_SIZE + 1
    /\ Len(Chunks) = 3
    /\ Len(Chunks[3]) = 1
    /\ queried = {cites_filter(Chunks[1])}
    /\ Len(collected) = MAX_WORKS

(***************************************************************************)
(* One adapter call and its HTTP attempts.  The server answers the first   *)
(* and the second attempt of the call with the statuses it is scripted     *)
(* with.  For oa_get_author_works the call followed is its first page      *)
(* request; the pages after it are SpecFetch's.                            *)
(***************************************************************************)
HTTP_TOO_MANY == 429

SEARCH_SLEEP == 2

FETCH_SLEEP == 5

Calls == {"oa_search_authors", "oa_get_author_works",
          "s2_search_authors", "s2_get_data"}

SearchCalls == {"oa_search_authors", "s2_search_authors"}

\* the functions with `if response.status_code == 429:` after requests.get
RetryCalls == {"s2_search_authors", "s2_get_data"}

\* time.sleep(2) in s2_search_authors, time.sleep(5) in s2_get_data
sleep_of(c) == IF c = "s2_search_authors" THEN SEARCH_SLEEP ELSE FETCH_SLEEP

\* st.error(f"... Error: {e}")
error_of(c) ==
    IF c = "oa_search_authors" THEN "OA Search Error"
    ELSE IF c = "oa_get_author_works" THEN "OA Works Error"
    ELSE IF c = "s2_search_authors" THEN "S2 Search Error"
    ELSE "S2 Fetch Error"

Statuses == {HTTP_OK, HTTP_TOO_MANY, HTTP_ERROR}

MaxAttempts == 3    \* answers the server is scripted with

Queries == {"", "Geoffrey Hinton"}

InitCall ==
    /\ IdleAgg
    /\ IdleFetch
    /\ IdleNorm
    /\ IdleMain
    /\ call \in Calls
    /\ query \in IF call \in SearchCalls THEN Queries ELSE {""}
    /\ statuses \in [1..MaxAttempts -> Statuses]
    /\ attempts = 0
    /\ slept = <<>>
    /\ status_code = 0
    /\ result = "none"
    /\ errors = <<>>
    /\ raised = FALSE
    /\ pc = "call"

\* if not query: return []
\* response = requests.get(url, headers=HEADERS)
CallGet ==
    /\ pc = "call"
    /\ IF call \in SearchCalls /\ query = ""
       THEN /\ result' = "empty"
            /\ pc' = "done"
            /\ UNCHANGED <<attempts, status_code>>
       ELSE /\ attempts' = attempts + 1
            /\ status_code' = statuses[attempts + 1]
            /\ pc' = "got"
            /\ UNCHANGED result
    /\ UNCHANGED <<aggVars, fetchVars, normVars, mainVars, call, query, statuses, slept, errors,
                   raised>>

\* if response.status_code == 429: (in the S2 functions only)
retry_on_429(c, code) == c \in RetryCalls /\ code = HTTP_TOO_MANY

\* time.sleep(...); response = requests.get(...), or nothing at all
CallRetry ==
    /\ pc = "got"
    /\ IF retry_on_429(call, status_code)
       THEN /\ slept' = Append(slept, sleep_of(call))
            /\ attempts' = attempts + 1
            /\ status_code' = statuses[attempts + 1]
       ELSE UNCHANGED <<slept, attempts, status_code>>
    /\ pc' = "checked"
    /\ UNCHANGED <<aggVars, fetchVars, normVars, mainVars, call, query, statuses, result, errors,
                   raised>>

\* response.raise_for_status(); return ...
\* except Exception as e: st.error(...); return []
CallReturn ==
    /\ pc = "checked"
    /\ IF status_code = HTTP_OK
       THEN /\ result' = "data"
            /\ UNCHANGED errors
       ELSE /\ result' = "empty"
            /\ errors' = Append(errors, error_of(call))
    /\ pc' = "done"
    /\ UNCHANGED <<aggVars, fetchVars, normVars, mainVars, call, query, statuses, attempts, slept,
                   status_code, raised>>

NextCall == CallGet \/ CallRetry \/ CallReturn

SpecCall == InitCall /\ [][NextCall]_vars

(***************************************************************************)
(* Identifier normalization, as oa_get_author_works, oa_process_data and   *)
(* oa_extract_collaborators all write it:                                  *)
(*   if a_id.startswith(P): a_id = a_id.replace(P, "")                     *)
(* applied to an identifier and then to its own result.  The identifiers  *)
(* are put together from up to MaxParts pieces, so that the prefix occurs  *)
(* whole, in part, repeated and nested.                                    *)
(***************************************************************************)
MaxParts == 4

IdParts == {OA_PREFIX, "https://ope", "nalex.org/", "A1"}

RECURSIVE IdsOfParts(_)
IdsOfParts(n) ==
    IF n = 0 THEN {""}
    ELSE LET shorter == IdsOfParts(n - 1)
         IN  shorter \cup {x \o part : x \in shorter, part \in IdParts}

InitNormalize ==
    /\ IdleAgg
    /\ IdleFetch
    /\ IdleCall
    /\ IdleMain
    /\ raw_id \in IdsOfParts(MaxParts)
    /\ once = ""
    /\ twice = ""
    /\ pc = "normalize"

Normalize ==
    /\ pc = "normalize"
    /\ once' = clean_id(raw_id)
    /\ pc' = "again"
    /\ UNCHANGED <<aggVars, fetchVars, callVars, mainVars, raw_id, twice>>

NormalizeAgain ==
    /\ pc = "again"
    /\ twice' = clean_id(once)
    /\ pc' = "done"
    /\ UNCHANGED <<aggVars, fetchVars, callVars, mainVars, raw_id, once>>

NextNormalize == Normalize \/ NormalizeAgain

SpecNormalize == InitNormalize /\ [][NextNormalize]_vars

(***************************************************************************)
(* One run of main: the two searches, the gate before the analysis, the    *)
(* OpenAlex pipeline and the Semantic Scholar pipeline.  What the adapter  *)
(* calls return is the run's input ([] also stands for a call that failed  *)
(* and surfaced its error, see SpecCall).                                  *)
(***************************************************************************)
SLIDER_MIN == 10

NO_COUNT == -1      \* a JSON null count: None, which Python cannot order

MaxBeyond == 1      \* works fetched beyond fetch_limit

\* items[:n]
slice_to(items, n) == SubSeq(items, 1, Min(n, Len(items)))

\* items.sort(key=..., reverse=True), keys[i] the key of items[i]: stable,
\* items of equal key keep their order
sort_reverse(items, keys) ==
    LET n == Len(items)
        before(i) == Cardinality({j \in 1..n :
                        \/ keys[j] > keys[i]
                        \/ keys[j] = keys[i] /\ j < i})
    IN  [r \in 1..n |-> items[CHOOSE i \in 1..n : before(i) = r - 1]]

\* TypeError: '<' not supported between 'NoneType' and 'int'
sort_raises(keys) ==
    Len(keys) >= 2 /\ \E i \in 1..Len(keys) : keys[i] = NO_COUNT

\* oa_extract_collaborators(author_works, target_author_id)
oa_extract_collaborators(author_works, target_raw) ==
    LET target      == clean_id(target_raw)
        authorships == Flatten([i \in 1..Len(author_works) |->
                                   author_works[i].authorships])
    IN  {clean_id(authorships[i].id) :
            i \in {k \in 1..Len(authorships) :
                      /\ authorships[k].id # ""
                      /\ clean_id(authorships[k].id) # target}}

\* display_results(source_name, target_author, df_top, num_analyzed, ...)
display_results(source_name, target_author, df_top, num_analyzed) ==
    [source       |-> source_name,
     target       |-> target_author,
     df           |-> df_top,
     num_analyzed |-> num_analyzed,
     warning      |-> IF df_top = <<>> THEN "No data found." ELSE ""]

\* the OpenAlex try block of main: the DataFrame and the number analyzed,
\* or the exception that ends the block (w["id"] of a work without id)
oa_analysis(works_full, citing, target, limit, xs, ties) ==
    LET sorted   == sort_reverse(works_full,
                        [i \in 1..Len(works_full) |-> works_full[i].cited_by_count])
        analyzed == slice_to(sorted, limit)
        collabs  == oa_extract_collaborators(works_full, target.id)
        found    == IF analyzed = <<>> THEN <<>> ELSE citing
    IN  IF \E i \in 1..Len(analyzed) : analyzed[i].id = ""
        THEN [failed |-> TRUE, df |-> <<>>, num_analyzed |-> 0]
        ELSE [failed       |-> FALSE,
              df           |-> oa_process_data(found, target.id, collabs, xs, ties),
              num_analyzed |-> Len(analyzed)]

\* the Semantic Scholar try block of main
s2_analysis(papers_raw, target, limit, xs, ties) ==
    LET keys      == [i \in 1..Len(papers_raw) |-> papers_raw[i].citationCount]
        s2_papers == slice_to(sort_reverse(papers_raw, keys), limit)
    IN  IF sort_raises(keys)
        THEN [failed |-> TRUE, df |-> <<>>, num_analyzed |-> 0]
        ELSE [failed       |-> FALSE,
              df           |-> s2_process_data(s2_papers, target.id, xs, ties),
              num_analyzed |-> Len(s2_papers)]

(***************************************************************************)
(* Inputs of a run.  The target's history is nothing, one work, or         *)
(* fetch_limit works of the target alone followed by up to MaxBeyond works *)
(* written with Alice, cited less (they fall outside the top-N slice) or   *)
(* more (inside it) than the others.                                       *)
(***************************************************************************)
OACandidate == Candidate(OA_PREFIX \o OATarget, "Target (Lab) - 7 citations")

S2Candidate == Candidate(S2Target, "Target (Lab) - 7 citations")

OwnWork(w, count, coauthors) ==
    [id             |-> w,
     cited_by_count |-> count,
     authorships    |-> <<OAAuthor(OA_PREFIX \o OATarget, "Target")>> \o coauthors]

OAAlice == OAAuthor(OA_PREFIX \o "A2", "Alice")

OAHistories(limit) ==
    LET alone  == [i \in 1..limit |->
                      OwnWork(OA_PREFIX \o "W" \o ToString(i), 10, <<>>)]
        with(b, c) == [k \in 1..b |->
                      OwnWork(OA_PREFIX \o "W" \o ToString(100 + k), c, <<OAAlice>>)]
    IN  { <<>>,
          SubSeq(alone, 1, 1),
          with(1, 5),
          <<OwnWork("", 3, <<>>)>> }
        \cup { alone \o with(b, c) : b \in 1..MaxBeyond, c \in {1, 99} }

OwnPaper(count, coauthors, citations) ==
    [citationCount |-> count,
     authors       |-> <<S2Author(S2Target, "Target")>> \o coauthors,
     citations     |-> citations]

S2Alice == S2Author("102", "Alice")

S2CitedBy ==
    << S2Citation(<<S2Alice>>),
       S2Citation(<<S2Author("103", "Bob"), S2Author(S2Target, "Target")>>) >>

S2Histories(limit) ==
    LET alone  == [i \in 1..limit |->
                      OwnPaper(10, <<>>, IF i = 1 THEN S2CitedBy ELSE <<>>)]
        with(b, c) == [k \in 1..b |-> OwnPaper(c, <<S2Alice>>, <<>>)]
    IN  { <<>>,
          SubSeq(alone, 1, 1),
          with(1, 5),
          <<OwnPaper(NO_COUNT, <<>>, <<>>), OwnPaper(3, <<>>, S2CitedBy)>> }
        \cup { alone \o with(b, c) : b \in 1..MaxBeyond, c \in {1, 99} }

InitMain ==
    /\ source = "none"
    /\ works = <<>>
    /\ papers = <<>>
    /\ target_author_id = OA_PREFIX \o OATarget
    /\ collaborator_ids = {}
    /\ exclude_self \in BOOLEAN
    /\ sort_ties \in {"kept", "reversed"}
    /\ df = NoRows
    /\ IdleFetch
    /\ IdleCall
    /\ IdleNorm
    /\ search_query \in Queries
    /\ run_button \in BOOLEAN
    /\ fetch_limit \in {SLIDER_MIN, 2 * SLIDER_MIN}
    /\ oa_candidates \in {<<>>, <<OACandidate>>}
    /\ s2_candidates \in {<<>>, <<S2Candidate>>}
    /\ oa_works_full \in OAHistories(fetch_limit)
    /\ oa_citing_fetched \in SeqsUpTo(OACitingPool, 1)
    /\ s2_papers_raw \in S2Histories(fetch_limit)
    /\ oa_target = None
    /\ s2_target = None
    /\ shown = <<>>
    /\ messages = <<>>
    /\ pc = "search"

\* st.selectbox shows the first option; the candidate of that display
selected(candidates) == IF candidates = <<>> THEN None ELSE candidates[1]

no_results(candidates, warning) ==
    IF candidates = <<>> THEN <<warning>> ELSE <<>>

\* if search_query: the two searches and the two selections
MainSearch ==
    /\ pc = "search"
    /\ IF search_query # ""
       THEN /\ oa_target' = selected(oa_candidates)
            /\ s2_target' = selected(s2_candidates)
            /\ messages' = messages \o no_results(oa_candidates, "No OA results.")
                                    \o no_results(s2_candidates, "No S2 results.")
       ELSE UNCHANGED <<oa_target, s2_target, messages>>
    /\ pc' = "analysis"
    /\ UNCHANGED <<aggVars, fetchVars, callVars, normVars, search_query,
                   run_button, fetch_limit, oa_candidates, s2_candidates,
                   oa_works_full, oa_citing_fetched, s2_papers_raw, shown>>

\* if oa_target and s2_target:
analysis_shown(oa, s2) == oa # None /\ s2 # None

\* if oa_target and s2_target: if st.button("Run Comparative Analysis"):
MainAnalysis ==
    /\ pc = "analysis"
    /\ pc' = IF analysis_shown(oa_target, s2_target) /\ run_button
             THEN "openalex" ELSE "done"
    /\ UNCHANGED <<aggVars, fetchVars, callVars, normVars, mainVars>>

\* try: ... display_results("OpenAlex Results", ...)
\* except Exception as e: st.error(f"OA Analysis Failed: {e}")
MainOpenAlex ==
    /\ pc = "openalex"
    /\ LET oa == oa_analysis(oa_works_full, oa_citing_fetched, oa_target,
                             fetch_limit, exclude_self, sort_ties)
       IN  IF oa.failed
           THEN /\ messages' = Append(messages, "OA Analysis Failed")
                /\ UNCHANGED shown
           ELSE /\ shown' = Append(shown,
                      display_results("OpenAlex Results", oa_target, oa.df,
                                      oa.num_analyzed))
                /\ UNCHANGED messages
    /\ pc' = "semanticscholar"
    /\ UNCHANGED <<aggVars, fetchVars, callVars, normVars, search_query,
                   run_button, fetch_limit, oa_candidates, s2_candidates,
                   oa_works_full, oa_citing_fetched, s2_papers_raw, oa_target,
                   s2_target>>

\* try: ... display_results("Semantic Scholar Results", ...)
\* except Exception as e: st.error(f"S2 Analysis Failed: {e}")
MainSemanticScholar ==
    /\ pc = "semanticscholar"
    /\ LET s2 == s2_analysis(s2_papers_raw, s2_target, fetch_limit,
                             exclude_self, sort_ties)
       IN  IF s2.failed
           THEN /\ messages' = Append(messages, "S2 Analysis Failed")
                /\ UNCHANGED shown
           ELSE /\ shown' = Append(shown,
                      display_results("Semantic Scholar Results", s2_target,
                                      s2.df, s2.num_analyzed))
                /\ UNCHANGED messages
    /\ pc' = "done"
    /\ UNCHANGED <<aggVars, fetchVars, callVars, normVars, search_query,
                   run_button, fetch_limit, oa_candidates, s2_candidates,
                   oa_works_full, oa_citing_fetched, s2_papers_raw, oa_target,
                   s2_target>>

NextMain == MainSearch \/ MainAnalysis \/ MainOpenAlex \/ MainSemanticScholar

SpecMain == InitMain /\ [][NextMain]_vars

(***************************************************************************)
(* C11: in every adapter call, of either source, a 429 answer is followed  *)
(* by one fixed sleep and exactly one retry; no request is attempted more  *)
(* than twice; and when the retry fails too the call returns empty with a  *)
(* message surfaced and raises nothing.                                    *)
(***************************************************************************)
C11_RetryOnceOn429 ==
    (pc = "done" /\ attempts > 0) =>
        /\ attempts <= 2
        /\ ~raised
        /\ statuses[1] = HTTP_TOO_MANY =>
              /\ attempts = 2
              /\ slept = <<sleep_of(call)>>
              /\ statuses[2] # HTTP_OK =>
                    (result = "empty" /\ errors = <<error_of(call)>>)
        /\ statuses[1] # HTTP_TOO_MANY => (attempts = 1 /\ slept = <<>>)

(***************************************************************************)
(* C15 speaks of the counted authorships of one canonical id, in the order *)
(* they are processed.                                                     *)
(***************************************************************************)
AuthorshipsOf(f, a) == {i \in f.counted : f.ids[i] = a}

FirstOf(S) == CHOOSE i \in S : \A j \in S : i <= j

LastOf(S) == CHOOSE i \in S : \A j \in S : i >= j

(***************************************************************************)
(* C15 as stated: a row's name is the display name of the last authorship  *)
(* processed for its id, and its count is the number of those authorships. *)
(***************************************************************************)
C15_NameOfLastAuthorship ==
    Done =>
        LET f == Facts
        IN  \A r \in Rows :
                LET S == AuthorshipsOf(f, df[r].id)
                IN  /\ S # {}
                    /\ df[r].name = f.citing[LastOf(S)].name
                    /\ df[r].citations = Cardinality(S)

(***************************************************************************)
(* C15 amended: the name is that of the first authorship processed for the *)
(* id; the count is incremented once per authorship.                       *)
(***************************************************************************)
C15_NameOfFirstAuthorship ==
    Done =>
        LET f == Facts
        IN  \A r \in Rows :
                LET S == AuthorshipsOf(f, df[r].id)
                IN  /\ S # {}
                    /\ df[r].name = f.citing[FirstOf(S)].name
                    /\ df[r].citations = Cardinality(S)

C15_Witness ==
    /\ Done
    /\ LET f == Facts
       IN  \E r \in Rows :
               LET S == AuthorshipsOf(f, df[r].id)
               IN  /\ Cardinality(S) >= 2
                   /\ f.citing[FirstOf(S)].name # f.citing[LastOf(S)].name
                   /\ df[r].name = f.citing[FirstOf(S)].name
                   /\ df[r].citations = Cardinality(S)

(***************************************************************************)
(* C13: normalization is idempotent on every string, and its result never  *)
(* starts with the prefix.                                                 *)
(***************************************************************************)
C13_NormalizeIdempotent ==
    pc = "done" =>
        /\ twice = once
        /\ ~startswith(once, OA_PREFIX)

(***************************************************************************)
(* What the claims on a run of main speak of.                              *)
(***************************************************************************)
OA_RESULTS == "OpenAlex Results"

S2_RESULTS == "Semantic Scholar Results"

Shown(source_name) == \E i \in 1..Len(shown) : shown[i].source = source_name

\* the user asked for an analysis: a query, and the button pressed if shown
Asked == search_query # "" /\ run_button

\* the source's own pipeline raises in its try block
OAFails ==
    oa_analysis(oa_works_full, oa_citing_fetched, OACandidate, fetch_limit,
                exclude_self, sort_ties).failed

S2Fails ==
    s2_analysis(s2_papers_raw, S2Candidate, fetch_limit, exclude_self,
                sort_ties).failed

\* the authors, other than the target, of any work of a fetched history
CoauthorsOf(authors, target) ==
    {Canon(authors[i].id) : i \in {k \in 1..Len(authors) : authors[k].id # ""}}
        \ {Canon(target)}

OAFullCoauthors ==
    CoauthorsOf(Flatten([i \in 1..Len(oa_works_full) |->
                            oa_works_full[i].authorships]),
                OACandidate.id)

S2FullCoauthors ==
    CoauthorsOf(Flatten([i \in 1..Len(s2_papers_raw) |->
                            s2_papers_raw[i].authors]),
                S2Candidate.id)

(***************************************************************************)
(* C12: the two pipelines are isolated.  Once an analysis was asked for,   *)
(* a source whose own search found the author and whose own pipeline does  *)
(* not raise has its results displayed, whatever the other source's        *)
(* search, fetches or aggregation came to.                                 *)
(***************************************************************************)
C12_SourcesIsolated ==
    (pc = "done" /\ Asked) =>
        /\ (s2_candidates # <<>> /\ ~S2Fails) => Shown(S2_RESULTS)
        /\ (oa_candidates # <<>> /\ ~OAFails) => Shown(OA_RESULTS)

(***************************************************************************)
(* C14: in both pipelines a citing author who wrote any work of the        *)
(* target's full fetched history with the target is categorised Co-author, *)
(* also when that work is outside the top-N slice; and the target itself   *)
(* is never categorised Co-author.                                         *)
(***************************************************************************)
C14_CollaboratorsFromFullHistory ==
    pc = "done" =>
        \A i \in 1..Len(shown) :
            LET rows   == shown[i].df
                target == Canon(shown[i].target.id)
                full   == IF shown[i].source = OA_RESULTS
                          THEN OAFullCoauthors ELSE S2FullCoauthors
            IN  \A r \in 1..Len(rows) :
                    /\ rows[r].id \in full => rows[r].category = "Co-author"
                    /\ rows[r].id = target => rows[r].category # "Co-author"

====
